---- MODULE Spec2Model ----
(***************************************************************************)
(* Lock-free packed-state handlers of shuttlings-cch24:                    *)
(*   day_9.rs   the milk bucket: an AtomicU64 holding (level, timestamp),  *)
(*              updated by milk (fetch_update) and refill (swap);          *)
(*   day_12.rs  the 4x4 board: an AtomicU64 holding 16 two-bit tiles,      *)
(*              updated by place (fetch_update) and reset.                 *)
(* Each handler is a process whose steps are its accesses to the atomic    *)
(* word; what a handler does between two accesses is local and belongs to  *)
(* the step of the access that follows it.                                 *)
(***************************************************************************)
EXTENDS Integers, Sequences, FiniteSets, TLC

\* ------------------------------------------------------------------ bounds
\* Number of concurrent request handlers (threads of the runtime).
NumProcs == 2
\* Number of milk requests and of refill requests a behaviour starts.
MaxMilk == 6
MaxRefill == 1
\* The instants (ms) at which the wall clock is read; the clock only moves
\* forward through them.
Instants == {0, 250, 1000, 5000}

Procs == 1..NumProcs

Min(a, b) == IF a <= b THEN a ELSE b
Max(a, b) == IF a >= b THEN a ELSE b

\* ------------------------------------------------------ day_9.rs: encoding
MAX_BUCKET_SIZE == 5
REFILL_TIME_MS == 1000
SINGLE_WITHDRAWAL_MILK == 1

\* x >> (8 * i), by repeated division so that no power of 256 is formed.
RECURSIVE ShiftBytes(_, _)
ShiftBytes(x, i) ==
    IF i = 0 THEN x ELSE ShiftBytes(x \div 256, i - 1)

\* u64::to_le_bytes: byte i is bits 8i..8i+7.
to_le_bytes(x) ==
    [i \in 0..7 |-> ShiftBytes(x, i) % 256]

\* u64::from_le_bytes of the bytes i..7 (Horner form).
RECURSIVE LeSum(_, _)
LeSum(bytes, i) ==
    IF i > 7 THEN 0
    ELSE IF \A j \in i..7 : bytes[j] = 0 THEN 0
    ELSE bytes[i] + 256 * LeSum(bytes, i + 1)

from_le_bytes(bytes) ==
    LeSum(bytes, 0)

\* A faulty variant of encode_state: the bucket size is added to the
\* timestamp whose byte 0 was not cleared.
encode_state_add(bucket_size, timestamp_ms) ==
    (timestamp_ms - (timestamp_ms % 256))
        + (((timestamp_ms % 256) + bucket_size) % 256)

\* Bytes 1..7 are those of the timestamp, byte 0 is the bucket size.
encode_state(bucket_size, timestamp_ms) ==
    LET ts_bytes == to_le_bytes(timestamp_ms)
        copied == [idx \in 0..7 |-> IF idx >= 1 THEN ts_bytes[idx] ELSE 0]
        encoded == [copied EXCEPT ![0] = bucket_size]
    IN  from_le_bytes(encoded)

decode_state(state) ==
    LET bytes == to_le_bytes(state)
        bucket_size == bytes[0]
        timestamp_ms == from_le_bytes([bytes EXCEPT ![0] = 0])
    IN  <<bucket_size, timestamp_ms>>

LevelOf(state) == decode_state(state)[1]
StampOf(state) == decode_state(state)[2]

\* ------------------------------------------- day_9.rs: the milk transition
\* u8 + u8: the sum and whether it left the u8 range.
u8_add(a, b) ==
    [value |-> (a + b) % 256, overflow |-> a + b > 255]

\* u8::saturating_sub.
saturating_sub(a, b) ==
    IF a >= b THEN a - b ELSE 0

\* A faulty variant of delta_to_refill: the quotient is rounded to the
\* nearest unit.
delta_to_refill_nearest(duration_since_last) ==
    Min((duration_since_last + (REFILL_TIME_MS \div 2)) \div REFILL_TIME_MS,
        MAX_BUCKET_SIZE)

\* duration_since_last.div(REFILL_TIME_MS).min(MAX_BUCKET_SIZE.into()) as u8
delta_to_refill(duration_since_last) ==
    Min(duration_since_last \div REFILL_TIME_MS, MAX_BUCKET_SIZE)

\* A faulty variant of new_size: the unit withdrawn is not subtracted.
new_size_keeps_unit(old_size, delta) ==
    Min(u8_add(old_size, delta).value, MAX_BUCKET_SIZE)

\* A faulty variant of new_size: the clamp to MAX_BUCKET_SIZE is left out.
new_size_unclamped(old_size, delta) ==
    saturating_sub(u8_add(old_size, delta).value, SINGLE_WITHDRAWAL_MILK)

\* A faulty variant of new_size: the unit is withdrawn before the clamp.
new_size_sub_first(old_size, delta) ==
    Min(saturating_sub(u8_add(old_size, delta).value, SINGLE_WITHDRAWAL_MILK),
        MAX_BUCKET_SIZE)

new_size(old_size, delta) ==
    saturating_sub(Min(u8_add(old_size, delta).value, MAX_BUCKET_SIZE),
                   SINGLE_WITHDRAWAL_MILK)

\* A faulty variant of no_milk: the level is not looked at.
no_milk_ignores_level(old_size, delta) ==
    delta = 0

\* The closure's early return: nothing in the bucket and nothing to refill.
no_milk(old_size, delta) ==
    old_size = 0 /\ delta = 0

\* The closure given to fetch_update: "None" when there is no milk, otherwise
\* the state to store.  delta is the refill it computed.  flaw names the
\* arithmetic event the evaluation met: "none"; "ts" when now - old_ts left the
\* u64 range (the wrapped difference is close to 2^64, so its quotient by
\* REFILL_TIME_MS is capped to MAX_BUCKET_SIZE); "add" when old_size + delta
\* left the u8 range; "sub" when the final subtraction had to saturate.
milk_closure(old_state, now) ==
    LET old_size == decode_state(old_state)[1]
        old_ts == decode_state(old_state)[2]
        delta == IF now >= old_ts
                 THEN delta_to_refill(now - old_ts)
                 ELSE MAX_BUCKET_SIZE
        sum == u8_add(old_size, delta)
        capped == Min(sum.value, MAX_BUCKET_SIZE)
        early == IF now < old_ts THEN "ts" ELSE "none"
        flaw == IF now < old_ts THEN "ts"
                ELSE IF sum.overflow THEN "add"
                ELSE IF capped < SINGLE_WITHDRAWAL_MILK THEN "sub"
                ELSE "none"
    IN  IF no_milk(old_size, delta)
        THEN [kind |-> "None", state |-> old_state, delta |-> delta,
              flaw |-> early]
        ELSE [kind |-> "Some",
              state |-> encode_state(new_size(old_size, delta), now),
              delta |-> delta, flaw |-> flaw]

\* ------------------------------------------------- day_12.rs: the board
\* A u64 is held as four 16-bit limbs, least significant first, so that no
\* number the model forms leaves the checker's integers.
LimbBits == 16
LimbSize == 2^LimbBits
ZeroWord == <<0, 0, 0, 0>>

\* a | b on one limb.
RECURSIVE LimbOr(_, _)
LimbOr(a, b) ==
    IF a = 0 THEN b
    ELSE IF b = 0 THEN a
    ELSE Max(a % 2, b % 2) + 2 * LimbOr(a \div 2, b \div 2)

\* x | y on u64.
bit_or(x, y) ==
    [k \in 1..4 |-> LimbOr(x[k], y[k])]

\* (v as u64) << n for a v below 2^16: it lands in limb n div 16 and the one
\* above it.
shift_left(v, n) ==
    LET low == (n \div LimbBits) + 1
        moved == v * 2^(n % LimbBits)
    IN  [k \in 1..4 |-> IF k = low THEN moved % LimbSize
                        ELSE IF k = low + 1 THEN moved \div LimbSize
                        ELSE 0]

\* (state >> n) & 0b11 for an even n: both bits lie in limb n div 16.
field_at(state, n) ==
    (state[(n \div LimbBits) + 1] \div 2^(n % LimbBits)) % 4

Tiles == {"Empty", "Cookie", "Milk"}
Cells == 0..15

\* A faulty variant of tile_as_u64: Milk has both bits set.
tile_as_u64_milk_three(tile) ==
    CASE tile = "Empty" -> 0
      [] tile = "Cookie" -> 1
      [] tile = "Milk" -> 3

\* tile as u64: the discriminants of the enum Tile.
tile_as_u64(tile) ==
    CASE tile = "Empty" -> 0
      [] tile = "Cookie" -> 1
      [] tile = "Milk" -> 2

\* The shift of tile i in decode.
decode_shift(i) ==
    2 * i

\* Board::decode panics (unreachable!) on a field that holds 3.
decode_panics(state) ==
    \E i \in Cells : field_at(state, decode_shift(i)) = 3

\* Board::decode: the tiles of a word none of whose fields holds 3.
Board_decode(state) ==
    [i \in Cells |->
        LET val == field_at(state, decode_shift(i))
        IN  CASE val = 0 -> "Empty"
              [] val = 1 -> "Cookie"
              [] val = 2 -> "Milk"
              [] OTHER -> "unreachable"]

\* A faulty variant of encode_shift: one bit per tile.
encode_shift_one_bit(i) ==
    i

\* The shift of tile i in encode.
encode_shift(i) ==
    2 * i

\* Board::encode: state |= (tile as u64) << (2 * i), for i = 0..15.
RECURSIVE encode_from(_, _, _)
encode_from(tiles, i, state) ==
    IF i > 15 THEN state
    ELSE encode_from(tiles, i + 1,
             bit_or(state, shift_left(tile_as_u64(tiles[i]), encode_shift(i))))

Board_encode(tiles) ==
    encode_from(tiles, 0, ZeroWord)

EmptyBoard == [i \in Cells |-> "Empty"]

\* The row-major board of four rows.
board_of_rows(rows) ==
    [i \in Cells |-> rows[(i \div 4) + 1][(i % 4) + 1]]

\* Board::get_col.
get_col(tiles, col) ==
    <<tiles[col], tiles[col + 4], tiles[col + 8], tiles[col + 12]>>

\* A faulty variant of is_winning_line: the test for Empty is left out.
is_winning_line_any(line) ==
    \A k \in 1..4 : line[k] = line[1]

\* The closure is_winning_line of check_for_winner.
is_winning_line(line) ==
    line[1] # "Empty" /\ \A k \in 1..4 : line[k] = line[1]

\* The lines check_for_winner looks at, in its order: the 4 rows, the 4
\* columns, the diagonal 0-5-10-15 and the diagonal 3-6-9-12.
lines_in_order(tiles) ==
    [k \in 1..10 |->
        IF k <= 4
        THEN LET start == (k - 1) * 4
             IN  <<tiles[start], tiles[start + 1], tiles[start + 2],
                   tiles[start + 3]>>
        ELSE IF k <= 8 THEN get_col(tiles, k - 5)
        ELSE IF k = 9 THEN <<tiles[0], tiles[5], tiles[10], tiles[15]>>
        ELSE <<tiles[3], tiles[6], tiles[9], tiles[12]>>]

\* Board::check_for_winner: Ok(Some(winner)), Ok(None), or Err(()) on a full
\* board without a winning line.
check_for_winner(tiles) ==
    LET lines == lines_in_order(tiles)
        winning == {k \in 1..10 : is_winning_line(lines[k])}
    IN  IF winning # {}
        THEN LET first == CHOOSE k \in winning : \A j \in winning : k <= j
             IN  [tag |-> "Ok", winner |-> lines[first][1]]
        ELSE IF \A i \in Cells : tiles[i] # "Empty"
        THEN [tag |-> "Err", winner |-> "None"]
        ELSE [tag |-> "Ok", winner |-> "None"]

\* A faulty variant of is_terminal: a draw is not looked for.
is_terminal_won_only(tiles) ==
    check_for_winner(tiles).tag = "Ok" /\ check_for_winner(tiles).winner # "None"

\* The pre-check of place: the board is a draw or has a winner.
is_terminal(tiles) ==
    \/ check_for_winner(tiles).tag = "Err"
    \/ (check_for_winner(tiles).tag = "Ok"
        /\ check_for_winner(tiles).winner # "None")

\* A faulty variant of push_item: the item goes to the empty cell with the
\* lowest row index.
push_item_top(tiles, col_idx, item) ==
    LET col == get_col(tiles, col_idx)
        empties == {r \in 0..3 : col[r + 1] = "Empty"}
    IN  IF empties = {}
        THEN [tag |-> "Err", tiles |-> tiles]
        ELSE LET idx_first_empty == CHOOSE r \in empties :
                                        \A q \in empties : r <= q
             IN  [tag |-> "Ok",
                  tiles |-> [tiles EXCEPT ![col_idx + (idx_first_empty * 4)] = item]]

\* Board::push_item: the item goes to the empty cell of the column with the
\* highest row index; Err(()) when the column has none.
push_item(tiles, col_idx, item) ==
    LET col == get_col(tiles, col_idx)
        empties == {r \in 0..3 : col[r + 1] = "Empty"}
    IN  IF empties = {}
        THEN [tag |-> "Err", tiles |-> tiles]
        ELSE LET idx_last_empty == CHOOSE r \in empties :
                                       \A q \in empties : q <= r
             IN  [tag |-> "Ok",
                  tiles |-> [tiles EXCEPT ![col_idx + (idx_last_empty * 4)] = item]]

\* The glyphs of the rendered board, by name, and their UTF-8 lengths.
WHITE_SQUARE == "white_square"
COOKIE_EMOJI == "cookie"
BLACK_SQUARE == "black_square"
MILK_GLASS == "milk_glass"
NEWLINE == "\n"

MAX_RENDERED_BOARD_SIZE == 128

\* A faulty variant of as_bytes_len: every glyph takes four bytes.
as_bytes_len_all_four(s) ==
    CASE s = NEWLINE -> 1
      [] s \in {WHITE_SQUARE, BLACK_SQUARE, COOKIE_EMOJI, MILK_GLASS} -> 4
      [] s \in {"cookie wins!", "milk_glass wins!"} -> 10
      [] s = "No winner." -> 10

\* s.as_bytes().len() of the strings render writes: the squares are three
\* bytes of UTF-8, the cookie and the glass of milk four, " wins!" six.
as_bytes_len(s) ==
    CASE s = NEWLINE -> 1
      [] s \in {WHITE_SQUARE, BLACK_SQUARE} -> 3
      [] s \in {COOKIE_EMOJI, MILK_GLASS} -> 4
      [] s \in {"cookie wins!", "milk_glass wins!"} -> 4 + 6
      [] s = "No winner." -> 10

\* write_str on each string of a list, from offset: the offset after each
\* write.  A write with offset + len above MAX_RENDERED_BOARD_SIZE indexes
\* the buffer out of range.
RECURSIVE write_str(_, _)
write_str(offset, strings) ==
    IF strings = <<>> THEN <<>>
    ELSE <<offset + as_bytes_len(Head(strings))>>
         \o write_str(offset + as_bytes_len(Head(strings)), Tail(strings))

\* A faulty variant of tile_glyph: the glyphs of the two teams are swapped.
tile_glyph_swapped(tile) ==
    CASE tile = "Empty" -> BLACK_SQUARE
      [] tile = "Cookie" -> MILK_GLASS
      [] tile = "Milk" -> COOKIE_EMOJI

tile_glyph(tile) ==
    CASE tile = "Empty" -> BLACK_SQUARE
      [] tile = "Cookie" -> COOKIE_EMOJI
      [] tile = "Milk" -> MILK_GLASS

\* A faulty variant of render: nothing is written for a draw.
render_draw_silent(tiles) ==
    LET row(r) == <<WHITE_SQUARE>>
                  \o [c \in 1..4 |-> tile_glyph(tiles[r * 4 + (c - 1)])]
                  \o <<WHITE_SQUARE, NEWLINE>>
        grid == row(0) \o row(1) \o row(2) \o row(3)
        last_row == [k \in 1..6 |-> WHITE_SQUARE]
        outcome == check_for_winner(tiles)
        suffix == IF outcome.tag = "Err"
                  THEN <<>>
                  ELSE IF outcome.winner = "Cookie"
                  THEN <<NEWLINE, "cookie wins!">>
                  ELSE IF outcome.winner = "Milk"
                  THEN <<NEWLINE, "milk_glass wins!">>
                  ELSE <<>>
    IN  grid \o last_row \o suffix \o <<NEWLINE>>

\* Board::render: the strings written to the buffer, in order.
render(tiles) ==
    LET row(r) == <<WHITE_SQUARE>>
                  \o [c \in 1..4 |-> tile_glyph(tiles[r * 4 + (c - 1)])]
                  \o <<WHITE_SQUARE, NEWLINE>>
        grid == row(0) \o row(1) \o row(2) \o row(3)
        last_row == [k \in 1..6 |-> WHITE_SQUARE]
        outcome == check_for_winner(tiles)
        suffix == IF outcome.tag = "Err"
                  THEN <<NEWLINE, "No winner.">>
                  ELSE IF outcome.winner = "Cookie"
                  THEN <<NEWLINE, "cookie wins!">>
                  ELSE IF outcome.winner = "Milk"
                  THEN <<NEWLINE, "milk_glass wins!">>
                  ELSE <<>>
    IN  grid \o last_row \o suffix \o <<NEWLINE>>

\* ------------------------------------------------ day_9.rs: the handlers
VARIABLES
    clock,          \* SystemTime::now() in ms
    BUCKET_STATE,   \* the AtomicU64 of day_9.rs
    handler,        \* per process: the milk or refill request it is running
    started,        \* requests started so far, per kind
    served,         \* milk requests whose CAS succeeded since the last refill
    denied,         \* milk requests answered 429 since the last refill
    calm,           \* since the last refill, which found no milk request in
                    \* flight, every evaluation of the closure saw less than
                    \* REFILL_TIME_MS elapsed
    flaw,           \* the first arithmetic event met by an evaluation
    BOARD,          \* the AtomicU64 of day_12.rs
    game,           \* per process: the board, reset or place request it is
                    \* running
    plays,          \* requests started so far, per kind
    placed,         \* place requests whose CAS succeeded since the last reset
    answer,         \* the response a handler of day_12.rs sent in the step
                    \* that led to this state, if it sent one
    call,           \* a function of the program applied on its own: its
                    \* name and arguments
    out             \* and its result, once computed

bucketVars == <<clock, BUCKET_STATE, handler, started, served, denied, calm, flaw>>
boardVars == <<BOARD, game, plays, placed, answer>>
pureVars == <<call, out>>

vars == <<bucketVars, boardVars, pureVars>>

NoCall == [fn |-> "none", args |-> <<>>]
Pending == [kind |-> "pending"]
NoPure == call = NoCall /\ out = Pending

NoResp == [status |-> 0, body |-> ""]
Idle == [pc |-> "idle", op |-> "none", prev |-> 0, now |-> 0, first |-> 0,
         resp |-> NoResp]
Done(op, resp) == [Idle EXCEPT !.pc = "done", !.op = op, !.resp = resp]

\* The board and its handlers before any request.
NoBody == <<>>
Resting == [pc |-> "idle", op |-> "none", team |-> "Empty", column |-> 0,
            prev |-> ZeroWord]
NoAnswer == [proc |-> 0, op |-> "none", status |-> 0, body |-> NoBody]

BoardIdle ==
    /\ BOARD = ZeroWord
    /\ game = [p \in Procs |-> Resting]
    /\ plays = [place |-> 0, reset |-> 0, board |-> 0]
    /\ placed = 0
    /\ answer = NoAnswer

BucketIdle ==
    /\ clock = 0
    /\ BUCKET_STATE = 0
    /\ handler = [p \in Procs |-> Idle]
    /\ started = [milk |-> 0, refill |-> 0]
    /\ served = 0
    /\ denied = 0
    /\ calm = FALSE
    /\ flaw = "none"

\* The clock is monotonic and is observed at the instants of Instants.
Tick ==
    /\ \E t \in Instants : t > clock /\ clock' = t
    /\ UNCHANGED <<BUCKET_STATE, handler, started, served, denied, calm, flaw,
                   boardVars, pureVars>>

\* milk, entry of fetch_update: the first load of BUCKET_STATE.
MilkLoad(p) ==
    /\ handler[p].pc \in {"idle", "done"}
    /\ started.milk < MaxMilk
    /\ started' = [started EXCEPT !.milk = @ + 1]
    /\ handler' = [handler EXCEPT ![p] =
            [Idle EXCEPT !.pc = "fu_eval", !.op = "milk", !.prev = BUCKET_STATE]]
    /\ UNCHANGED <<clock, BUCKET_STATE, served, denied, calm, flaw, boardVars,
                   pureVars>>

\* A faulty variant of capture_now: now is read by the first evaluation of a
\* request and kept for its retries.
capture_once(h, clk) ==
    IF h.pc = "fu_again" THEN h.first ELSE clk

\* The value of now an evaluation of the closure uses: SystemTime::now() is
\* called inside the closure, so every evaluation reads the clock.
capture_now(h, clk) ==
    clk

\* milk, one evaluation of the closure on the value last observed.  An
\* arithmetic event of kind "ts" or "add" panics in a build with overflow
\* checks and wraps otherwise.
MilkEval(p) ==
    LET h == handler[p]
        now == capture_now(h, clock)
        r == milk_closure(h.prev, now)
        first == IF h.pc = "fu_eval" THEN now ELSE h.first
    IN  /\ h.pc \in {"fu_eval", "fu_again"}
        /\ \E outcome \in (IF r.flaw \in {"ts", "add"}
                           THEN {"panic", "wrap"} ELSE {"run"}) :
              /\ handler' = [handler EXCEPT ![p] =
                    IF outcome = "panic"
                    THEN Done("milk", [status |-> 500, body |-> ""])
                    ELSE IF r.kind = "None"
                    THEN Done("milk", [status |-> 429,
                                       body |-> "No milk available\n"])
                    ELSE [h EXCEPT !.pc = "fu_cas", !.now = now,
                                   !.first = first]]
              /\ denied' = IF outcome # "panic" /\ r.kind = "None"
                           THEN denied + 1 ELSE denied
        /\ flaw' = IF flaw = "none" THEN r.flaw ELSE flaw
        /\ calm' = (calm /\ r.delta = 0 /\ r.flaw = "none")
        /\ UNCHANGED <<clock, BUCKET_STATE, started, served, boardVars,
                       pureVars>>

\* What milk answers once has_milk is Ok: it depends on the request's
\* Content-Type header and body only.
MilkBodies == {"plain", "json", "badjson"}
milk_response(input) ==
    CASE input = "plain" -> [status |-> 200, body |-> "Milk withdrawn\n"]
      [] input = "json" -> [status |-> 200, body |-> "converted"]
      [] OTHER -> [status |-> 400, body |-> ""]

\* A faulty variant of cas_succeeds: the store happens whatever the word holds.
cas_blind(current, expected, spurious) ==
    TRUE

\* A faulty variant of cas_succeeds: the store never happens.
cas_never(current, expected, spurious) ==
    FALSE

\* compare_exchange_weak: whether the store happens.  The weak form may fail
\* although the word holds the expected value (spurious).
cas_succeeds(current, expected, spurious) ==
    current = expected /\ ~spurious

\* milk, compare_exchange_weak of fetch_update: store the closure's result if
\* BUCKET_STATE still holds the value it was computed from; otherwise take
\* the value found and evaluate the closure again.
MilkCas(p) ==
    LET h == handler[p]
        next == milk_closure(h.prev, h.now).state
    IN  /\ h.pc = "fu_cas"
        /\ \E spurious \in BOOLEAN :
              IF cas_succeeds(BUCKET_STATE, h.prev, spurious)
              THEN /\ BUCKET_STATE' = next
                   /\ \E input \in MilkBodies :
                         handler' = [handler EXCEPT ![p] =
                             Done("milk", milk_response(input))]
                   /\ served' = served + 1
              ELSE /\ handler' = [handler EXCEPT ![p] =
                          [h EXCEPT !.pc = "fu_again", !.prev = BUCKET_STATE]]
                   /\ UNCHANGED <<BUCKET_STATE, served>>
        /\ UNCHANGED <<clock, started, denied, calm, flaw, boardVars, pureVars>>

\* refill, first half: now is read.
RefillNow(p) ==
    /\ handler[p].pc \in {"idle", "done"}
    /\ started.refill < MaxRefill
    /\ started' = [started EXCEPT !.refill = @ + 1]
    /\ handler' = [handler EXCEPT ![p] =
            [Idle EXCEPT !.pc = "rf_swap", !.op = "refill", !.now = clock]]
    /\ UNCHANGED <<clock, BUCKET_STATE, served, denied, calm, flaw, boardVars,
                   pureVars>>

\* A refill that fills the bucket but keeps the timestamp it found.
refill_state_keeps_stamp(current, now) ==
    encode_state(MAX_BUCKET_SIZE, StampOf(current))

\* The state refill stores.
refill_state(current, now) ==
    encode_state(MAX_BUCKET_SIZE, now)

\* refill, second half: the unconditional swap.
RefillSwap(p) ==
    LET h == handler[p]
    IN  /\ h.pc = "rf_swap"
        /\ BUCKET_STATE' = refill_state(BUCKET_STATE, h.now)
        /\ handler' = [handler EXCEPT ![p] =
                Done("refill", [status |-> 200, body |-> ""])]
        /\ served' = 0
        /\ denied' = 0
        /\ calm' = (\A q \in Procs \ {p} : handler[q].op # "milk"
                                           \/ handler[q].pc = "done")
        /\ UNCHANGED <<clock, started, flaw, boardVars, pureVars>>

BucketInit ==
    BucketIdle /\ BoardIdle /\ NoPure

BucketNext ==
    \/ Tick
    \/ \E p \in Procs : MilkLoad(p)
    \/ \E p \in Procs : MilkEval(p)
    \/ \E p \in Procs : MilkCas(p)
    \/ \E p \in Procs : RefillNow(p)
    \/ \E p \in Procs : RefillSwap(p)

\* The bucket of day_9.rs under concurrent milk and refill requests.
SpecBucket == BucketInit /\ [][BucketNext]_vars

\* ------------------------------------- day_9.rs: the functions on their own
\* Old states (level, timestamp) and readings of the clock given to the
\* withdraw closure: stored timestamps are multiples of 256.
ClosureLevels == 0..MAX_BUCKET_SIZE
ClosureStamps == {0, 256, 768, 4864, 256000}
ClosureElapsed == {0, 1, 255, 256, 500, 999, 1000, 1001, 1999, 2000, 2500,
                   4999, 5000, 5001, 6000, 100000}

ClosureInit ==
    /\ BucketIdle
    /\ BoardIdle
    /\ \E L \in ClosureLevels, ts \in ClosureStamps, d \in ClosureElapsed :
          call = [fn |-> "milk_closure", args |-> <<L, ts, ts + d>>]
    /\ out = Pending

\* One evaluation of the withdraw closure on the old state (L, ts) at now.
ApplyClosure ==
    /\ call.fn = "milk_closure"
    /\ out = Pending
    /\ out' = milk_closure(call.args[1] + call.args[2], call.args[3])
    /\ UNCHANGED <<bucketVars, boardVars, call>>

SpecClosure == ClosureInit /\ [][ApplyClosure]_vars

\* Counters and timestamps given to encode_state.
CodecCounters == 0..255
CodecStamps == {0, 1, 255, 256, 257, 500, 1000, 4999, 65535, 65536, 1000000,
                16777215, 16777216, 2147483392, 2147483647}

CodecInit ==
    /\ BucketIdle
    /\ BoardIdle
    /\ \E c \in CodecCounters, t \in CodecStamps :
          call = [fn |-> "encode_state", args |-> <<c, t>>]
    /\ out = Pending

\* encode_state followed by decode_state.
ApplyCodec ==
    /\ call.fn = "encode_state"
    /\ out = Pending
    /\ LET encoded == encode_state(call.args[1], call.args[2])
       IN  out' = [kind |-> "codec", encoded |-> encoded,
                   decoded |-> decode_state(encoded)]
    /\ UNCHANGED <<bucketVars, boardVars, call>>

SpecCodec == CodecInit /\ [][ApplyCodec]_vars

\* ------------------------------------------------- claims on the bucket
MilkInFlight ==
    \E p \in Procs : handler[p].op = "milk" /\ handler[p].pc # "done"

\* C1: no double spend.  After a refill (level 5), as long as every
\* evaluation of the withdraw closure sees less than REFILL_TIME_MS elapsed and
\* no refill runs, each successful withdrawal takes one unit of its own: the
\* level is 5 minus the number of successes, a request is denied only at level
\* 0, and once N >= 5 requests have completed exactly 5 have succeeded, N - 5
\* were denied and the level is 0.
NoDoubleSpend ==
    calm =>
        /\ LevelOf(BUCKET_STATE) + served = MAX_BUCKET_SIZE
        /\ (denied > 0 => LevelOf(BUCKET_STATE) = 0)
        /\ (~MilkInFlight /\ served + denied >= 5) =>
              /\ served = 5
              /\ denied = (served + denied) - 5
              /\ LevelOf(BUCKET_STATE) = 0

\* Six withdrawals have completed after the refill with no time observed:
\* five succeeded and one was denied.
NoDoubleSpendWitness ==
    /\ calm
    /\ ~MilkInFlight
    /\ served = 5
    /\ denied = 1

\* C5: across every change of the bucket word (a successful withdraw or a
\* refill) the decoded timestamp does not decrease.
TimestampMonotonic ==
    [][StampOf(BUCKET_STATE') >= StampOf(BUCKET_STATE)]_vars

\* C6: the decoded level is always in 0..MAX_BUCKET_SIZE, and no evaluation
\* of the withdraw closure has met a u8 addition that overflows or a
\* subtraction that has to saturate.
LevelInRange ==
    /\ LevelOf(BUCKET_STATE) \in 0..MAX_BUCKET_SIZE
    /\ flaw \notin {"add", "sub"}

\* A withdrawal evaluated on a full bucket with the largest refill (5 + 5, the
\* largest sum the closure forms) is about to store its result.
LevelInRangeWitness ==
    \E p \in Procs :
        /\ handler[p].pc = "fu_cas"
        /\ LevelOf(handler[p].prev) = MAX_BUCKET_SIZE
        /\ handler[p].now - StampOf(handler[p].prev) >= 5 * REFILL_TIME_MS

\* C7 as stated: every evaluation of a request uses the now of the request's
\* first evaluation.
NowCapturedOncePerRequest ==
    \A p \in Procs :
        handler[p].pc = "fu_cas" => handler[p].now = handler[p].first

\* C7 as amended: every evaluation of the closure, a retry included, reads the
\* clock: the now it uses is the clock's value at that evaluation.
NowCapturedPerEvaluation ==
    [][\A p \in Procs :
         (handler[p].pc \in {"fu_eval", "fu_again"} /\ handler'[p].pc = "fu_cas")
            => /\ handler'[p].now = clock
               /\ handler'[p].now >= handler[p].now]_vars

\* A retry has evaluated the closure with a later now than the request's first
\* evaluation.
NowRecapturedWitness ==
    \E p \in Procs :
        handler[p].pc = "fu_cas" /\ handler[p].now > handler[p].first

\* C8: an evaluation that finds old level 0 and refill 0 ends the request with
\* 429 "No milk available" and the bucket word is not written; a 429 is
\* answered in no other case.
NoMilk(p) ==
    /\ handler[p].pc \in {"fu_eval", "fu_again"}
    /\ LevelOf(handler[p].prev) = 0
    /\ (clock - StampOf(handler[p].prev)) \div REFILL_TIME_MS = 0

FailedWithdrawWritesNothing ==
    [][\A p \in Procs :
         /\ (NoMilk(p) /\ handler'[p] # handler[p]) =>
               /\ BUCKET_STATE' = BUCKET_STATE
               /\ handler'[p] = Done("milk", [status |-> 429,
                                              body |-> "No milk available\n"])
         /\ (handler'[p].resp.status = 429 /\ handler[p].resp.status # 429) =>
               /\ NoMilk(p)
               /\ BUCKET_STATE' = BUCKET_STATE]_vars

\* A withdraw request has been answered 429 while another process was between
\* its evaluation and its CAS.
FailedWithdrawWitness ==
    \E p, q \in Procs :
        /\ handler[p].resp.status = 429
        /\ handler[q].pc = "fu_cas"

\* ------------------------------------- claims on the bucket's functions
\* C4: the withdraw closure on old state (L, ts) at now >= ts, with refill =
\* min((now - ts) div 1000, 5): it fails iff L = 0 and refill = 0; otherwise
\* it yields encode_state(min(L + refill, 5) - 1, now), whose level is
\* min(L + refill, 5) - 1.  From (0, 0): now = 500 fails, now = 1000 leaves
\* level 0, now = 5000 leaves level 4.
WithdrawMath ==
    (call.fn = "milk_closure" /\ out # Pending) =>
        LET L == call.args[1]
            ts == call.args[2]
            now == call.args[3]
            refill == Min((now - ts) \div 1000, 5)
            level == Min(L + refill, 5) - 1
        IN  /\ (out.kind = "None") <=> (L = 0 /\ refill = 0)
            /\ out.kind = "Some" =>
                  /\ out.state = encode_state(level, now)
                  /\ LevelOf(out.state) = level
                  /\ StampOf(out.state) = now - (now % 256)
            /\ out.flaw = "none"
            /\ (L = 0 /\ ts = 0 /\ now = 500) => out.kind = "None"
            /\ (L = 0 /\ ts = 0 /\ now = 1000) =>
                  out.kind = "Some" /\ LevelOf(out.state) = 0
            /\ (L = 0 /\ ts = 0 /\ now = 5000) =>
                  out.kind = "Some" /\ LevelOf(out.state) = 4

\* The closure was evaluated on (0, 0) at now = 5000 and left level 4.
WithdrawMathWitness ==
    /\ call = [fn |-> "milk_closure", args |-> <<0, 0, 5000>>]
    /\ out # Pending
    /\ out.kind = "Some"
    /\ LevelOf(out.state) = 4

\* C9: decode_state(encode_state(c, t)) = (c, t - (t mod 256)), which is
\* (c, t) exactly when t is a multiple of 256; the counter is the lowest byte
\* of the word and the bytes above it are those of the timestamp.
BucketRoundTrip ==
    (call.fn = "encode_state" /\ out # Pending) =>
        LET c == call.args[1]
            t == call.args[2]
        IN  /\ out.decoded = <<c, t - (t % 256)>>
            /\ (out.decoded = <<c, t>>) <=> (t % 256 = 0)
            /\ out.encoded % 256 = c
            /\ out.encoded \div 256 = t \div 256

\* A counter above MAX_BUCKET_SIZE was encoded with a timestamp that is not a
\* multiple of 256 and decoded again.
BucketRoundTripWitness ==
    /\ call = [fn |-> "encode_state", args |-> <<255, 65535>>]
    /\ out # Pending
    /\ out.decoded = <<255, 65280>>

\* ------------------------------------------------ day_12.rs: the handlers
\* Number of place, reset and board requests a behaviour starts.
MaxPlace == 2
MaxReset == 1
MaxBoard == 1

\* Boards the game can be in when the requests under study arrive.  Each has
\* no empty cell below a tile, no winning line and an empty cell, so it is
\* reached from the empty board by place requests one after the other, column
\* by column from the bottom row up: every board on the way passes the
\* pre-check of place.
NearWin ==
    board_of_rows(<< <<"Empty", "Empty", "Empty", "Empty">>,
                     <<"Cookie", "Empty", "Empty", "Empty">>,
                     <<"Cookie", "Milk", "Empty", "Empty">>,
                     <<"Cookie", "Milk", "Milk", "Empty">> >>)

NearDraw ==
    board_of_rows(<< <<"Empty", "Cookie", "Cookie", "Empty">>,
                     <<"Milk", "Cookie", "Milk", "Cookie">>,
                     <<"Cookie", "Milk", "Cookie", "Milk">>,
                     <<"Milk", "Cookie", "Milk", "Milk">> >>)

\* NearDraw after a Milk in column 0: a Cookie in the last cell makes a draw,
\* a Milk completes the diagonal 3-6-9-12.
OneLeft ==
    board_of_rows(<< <<"Milk", "Cookie", "Cookie", "Empty">>,
                     <<"Milk", "Cookie", "Milk", "Cookie">>,
                     <<"Cookie", "Milk", "Cookie", "Milk">>,
                     <<"Milk", "Cookie", "Milk", "Milk">> >>)

\* Three Cookies in column 0 and three Milks in column 1: each team is one
\* move from a column win.
TwoThreats ==
    board_of_rows(<< <<"Empty", "Empty", "Empty", "Empty">>,
                     <<"Cookie", "Milk", "Empty", "Empty">>,
                     <<"Cookie", "Milk", "Empty", "Empty">>,
                     <<"Cookie", "Milk", "Empty", "Empty">> >>)

StartBoards == {EmptyBoard, NearWin, NearDraw, OneLeft, TwoThreats}

tiles_placed(tiles) ==
    Cardinality({i \in Cells : tiles[i] # "Empty"})

BoardInit ==
    /\ BucketIdle
    /\ NoPure
    /\ \E start \in StartBoards :
          /\ BOARD = Board_encode(start)
          /\ placed = tiles_placed(start)
    /\ game = [p \in Procs |-> Resting]
    /\ plays = [place |-> 0, reset |-> 0, board |-> 0]
    /\ answer = NoAnswer

\* The response a handler sends.
Response(p, op, status, body) ==
    [proc |-> p, op |-> op, status |-> status, body |-> body]

\* A handler that panics (decode met a field holding 3) answers 500.
Panic(p, op) == Response(p, op, 500, NoBody)

Free(p) == game[p].pc = "idle"

\* render_board: load BOARD, decode, render.
render_board(word) ==
    render(Board_decode(word))

\* board: the current render.
GetBoard(p) ==
    /\ Free(p)
    /\ plays.board < MaxBoard
    /\ plays' = [plays EXCEPT !.board = @ + 1]
    /\ answer' = IF decode_panics(BOARD) THEN Panic(p, "board")
                 ELSE Response(p, "board", 200, render_board(BOARD))
    /\ UNCHANGED <<BOARD, game, placed, bucketVars, pureVars>>

\* reset, entry of fetch_update: the first load.
ResetLoad(p) ==
    /\ Free(p)
    /\ plays.reset < MaxReset
    /\ plays' = [plays EXCEPT !.reset = @ + 1]
    /\ game' = [game EXCEPT ![p] =
          [Resting EXCEPT !.pc = "rs_cas", !.op = "reset", !.prev = BOARD]]
    /\ UNCHANGED <<BOARD, placed, bucketVars, pureVars>>
    /\ answer' = NoAnswer

\* reset, compare_exchange_weak of fetch_update with the closure |_| Some(0).
ResetCas(p) ==
    LET g == game[p]
    IN  /\ g.pc = "rs_cas"
        /\ \E spurious \in BOOLEAN :
              IF cas_succeeds(BOARD, g.prev, spurious)
              THEN /\ BOARD' = ZeroWord
                   /\ placed' = 0
                   /\ game' = [game EXCEPT ![p] = [g EXCEPT !.pc = "rs_render"]]
              ELSE /\ game' = [game EXCEPT ![p] = [g EXCEPT !.prev = BOARD]]
                   /\ UNCHANGED <<BOARD, placed>>
        /\ answer' = NoAnswer
        /\ UNCHANGED <<plays, bucketVars, pureVars>>

\* reset, render_board and the answer.
ResetRender(p) ==
    /\ game[p].pc = "rs_render"
    /\ game' = [game EXCEPT ![p] = Resting]
    /\ answer' = IF decode_panics(BOARD) THEN Panic(p, "reset")
                 ELSE Response(p, "reset", 200, render_board(BOARD))
    /\ UNCHANGED <<BOARD, plays, placed, bucketVars, pureVars>>

\* The path parameters of place as they arrive.
TeamTokens == {"cookie", "milk", "santa"}
ColumnTokens == {"0", "1", "2", "3", "4", "5", "x"}

parse_team(token) ==
    CASE token = "cookie" -> [ok |-> TRUE, tile |-> "Cookie"]
      [] token = "milk" -> [ok |-> TRUE, tile |-> "Milk"]
      [] OTHER -> [ok |-> FALSE, tile |-> "Empty"]

\* column.parse::<usize>()
parse_column(token) ==
    CASE token = "0" -> [ok |-> TRUE, value |-> 0]
      [] token = "1" -> [ok |-> TRUE, value |-> 1]
      [] token = "2" -> [ok |-> TRUE, value |-> 2]
      [] token = "3" -> [ok |-> TRUE, value |-> 3]
      [] token = "4" -> [ok |-> TRUE, value |-> 4]
      [] token = "5" -> [ok |-> TRUE, value |-> 5]
      [] OTHER -> [ok |-> FALSE, value |-> 0]

\* A faulty variant of validate: the column is not made 0-based.
validate_no_offset(team_token, column_token) ==
    LET team == parse_team(team_token)
        column == parse_column(column_token)
        bad == [ok |-> FALSE, team |-> "Empty", column |-> 0]
    IN  IF ~team.ok \/ ~column.ok THEN bad
        ELSE IF column.value < 1 THEN bad
        ELSE IF column.value >= 4 THEN bad
        ELSE [ok |-> TRUE, team |-> team.tile, column |-> column.value]

\* The validation of place: the tile and the 0-based column, or a 400.
validate(team_token, column_token) ==
    LET team == parse_team(team_token)
        column == parse_column(column_token)
        bad == [ok |-> FALSE, team |-> "Empty", column |-> 0]
    IN  IF ~team.ok \/ ~column.ok THEN bad
        ELSE IF column.value < 1 THEN bad
        ELSE IF saturating_sub(column.value, 1) >= 4 THEN bad
        ELSE [ok |-> TRUE, team |-> team.tile,
              column |-> saturating_sub(column.value, 1)]

\* place, up to its pre-check: validation, then the load of BOARD and the
\* test for a finished game.
PlaceCheck(p) ==
    LET panics == decode_panics(BOARD)
        next_pc == IF is_terminal(Board_decode(BOARD))
                   THEN "pl_term" ELSE "pl_load"
    IN  /\ Free(p)
        /\ plays.place < MaxPlace
        /\ plays' = [plays EXCEPT !.place = @ + 1]
        /\ \E team_token \in TeamTokens, column_token \in ColumnTokens :
              LET v == validate(team_token, column_token)
              IN  IF ~v.ok
                  THEN /\ answer' = Response(p, "place", 400, NoBody)
                       /\ UNCHANGED game
                  ELSE IF panics
                  THEN /\ answer' = Panic(p, "place")
                       /\ UNCHANGED game
                  ELSE /\ game' = [game EXCEPT ![p] =
                              [Resting EXCEPT !.pc = next_pc, !.op = "place",
                                              !.team = v.team,
                                              !.column = v.column]]
                       /\ answer' = NoAnswer
        /\ UNCHANGED <<BOARD, placed, bucketVars, pureVars>>

\* place, the game was finished at the pre-check: render_board and 503.
PlaceTerminal(p) ==
    /\ game[p].pc = "pl_term"
    /\ game' = [game EXCEPT ![p] = Resting]
    /\ answer' = IF decode_panics(BOARD) THEN Panic(p, "place")
                 ELSE Response(p, "place", 503, render_board(BOARD))
    /\ UNCHANGED <<BOARD, plays, placed, bucketVars, pureVars>>

\* The closure place gives to fetch_update: push the item and encode, or None
\* when the column is full.
place_closure(word, column, team) ==
    LET pushed == push_item(Board_decode(word), column, team)
    IN  IF pushed.tag = "Ok"
        THEN [kind |-> "Some", state |-> Board_encode(pushed.tiles)]
        ELSE [kind |-> "None", state |-> word]

\* Where place goes once fetch_update has observed a word: to the CAS when
\* the closure yields a board, to the answer when the column is full (or the
\* closure panics in decode).
after_observing(g, word) ==
    [g EXCEPT !.prev = word,
              !.pc = IF decode_panics(word) THEN "pl_panic"
                     ELSE IF place_closure(word, g.column, g.team).kind = "Some"
                     THEN "pl_cas" ELSE "pl_full"]

\* place, entry of fetch_update: the first load and the closure on it.
PlaceLoad(p) ==
    /\ game[p].pc = "pl_load"
    /\ game' = [game EXCEPT ![p] = after_observing(game[p], BOARD)]
    /\ answer' = NoAnswer
    /\ UNCHANGED <<BOARD, plays, placed, bucketVars, pureVars>>

\* place, compare_exchange_weak of fetch_update: store the closure's board if
\* BOARD still holds the word it was computed from (fetch_update then returns
\* that previous word); otherwise run the closure on the word found.
PlaceCas(p) ==
    LET g == game[p]
    IN  /\ g.pc = "pl_cas"
        /\ \E spurious \in BOOLEAN :
              IF cas_succeeds(BOARD, g.prev, spurious)
              THEN /\ BOARD' = place_closure(g.prev, g.column, g.team).state
                   /\ placed' = placed + 1
                   /\ game' = [game EXCEPT ![p] = [g EXCEPT !.pc = "pl_render"]]
              ELSE /\ game' = [game EXCEPT ![p] = after_observing(g, BOARD)]
                   /\ UNCHANGED <<BOARD, placed>>
        /\ answer' = NoAnswer
        /\ UNCHANGED <<plays, bucketVars, pureVars>>

\* A faulty variant of place_response: a full column is answered with the
\* render of the board.
place_response_full_body(p, g, word) ==
    IF g.pc = "pl_panic" \/ decode_panics(word) THEN Panic(p, "place")
    ELSE IF g.pc = "pl_full" THEN Response(p, "place", 503, render_board(word))
    ELSE IF check_for_winner(Board_decode(g.prev)).tag = "Err"
    THEN Response(p, "place", 503, render_board(word))
    ELSE Response(p, "place", 200, render_board(word))

\* The answer of place after fetch_update: the outcome is looked up on the
\* word fetch_update returned, the body is the render of the word loaded now.
place_response(p, g, word) ==
    IF g.pc = "pl_panic" \/ decode_panics(word) THEN Panic(p, "place")
    ELSE IF g.pc = "pl_full" THEN Response(p, "place", 503, NoBody)
    ELSE IF check_for_winner(Board_decode(g.prev)).tag = "Err"
    THEN Response(p, "place", 503, render_board(word))
    ELSE Response(p, "place", 200, render_board(word))

\* place, render_board and the answer.
PlaceRender(p) ==
    /\ game[p].pc \in {"pl_render", "pl_full", "pl_panic"}
    /\ game' = [game EXCEPT ![p] = Resting]
    /\ answer' = place_response(p, game[p], BOARD)
    /\ UNCHANGED <<BOARD, plays, placed, bucketVars, pureVars>>

BoardNext ==
    \/ \E p \in Procs : GetBoard(p)
    \/ \E p \in Procs : ResetLoad(p)
    \/ \E p \in Procs : ResetCas(p)
    \/ \E p \in Procs : ResetRender(p)
    \/ \E p \in Procs : PlaceCheck(p)
    \/ \E p \in Procs : PlaceTerminal(p)
    \/ \E p \in Procs : PlaceLoad(p)
    \/ \E p \in Procs : PlaceCas(p)
    \/ \E p \in Procs : PlaceRender(p)

\* The board of day_12.rs under concurrent board, reset and place requests.
SpecBoard == BoardInit /\ [][BoardNext]_vars

\* --------------------------------------- day_12.rs: claims on the handlers
\* The step is the successful CAS of a reset.
ResetWrites(p) ==
    /\ game[p].pc = "rs_cas"
    /\ game'[p].pc = "rs_render"

\* The step is the successful CAS of a place request.
PlaceWrites(p) ==
    /\ game[p].pc = "pl_cas"
    /\ game'[p].pc = "pl_render"

\* C2: terminal states are absorbing for moves.  Once BOARD decodes to a
\* board that is Won or Draw, a step that changes BOARD is the CAS of a reset,
\* never the CAS of a place request.
TerminalAbsorbing ==
    [][(is_terminal(Board_decode(BOARD)) /\ BOARD' # BOARD)
          => \E p \in Procs : ResetWrites(p)]_vars

\* C3: no lost moves.  Every successful CAS of a place request writes
\* push_item(v, column, team) for v the word BOARD held just before it, and
\* BOARD changes in no other way but the CAS of a reset; so the number of
\* non-empty cells of BOARD is the number of place requests whose CAS has
\* succeeded since the last reset.
NoLostMoves ==
    /\ [](tiles_placed(Board_decode(BOARD)) = placed)
    /\ [][/\ \A p \in Procs :
               PlaceWrites(p) =>
                   LET pushed == push_item(Board_decode(BOARD),
                                           game[p].column, game[p].team)
                   IN  /\ pushed.tag = "Ok"
                       /\ BOARD' = Board_encode(pushed.tiles)
                       /\ placed' = placed + 1
          /\ BOARD' # BOARD =>
               \E p \in Procs :
                   \/ PlaceWrites(p)
                   \/ ResetWrites(p) /\ placed' = 0]_vars

\* Two place requests to the same column observed the same word; the CAS of
\* the first has succeeded, and the second still holds the word it observed,
\* which BOARD no longer holds.
NoLostMovesWitness ==
    /\ game[1].pc = "pl_render"
    /\ game[2].pc = "pl_cas"
    /\ game[1].column = game[2].column
    /\ game[2].prev = game[1].prev
    /\ game[2].prev # BOARD
    /\ tiles_placed(Board_decode(BOARD)) = tiles_placed(Board_decode(game[2].prev)) + 1

\* C11: in every reachable state the upper 32 bits of BOARD are zero and none
\* of its sixteen 2-bit fields holds 3, so decode does not reach unreachable!().
BoardWordValid ==
    /\ BOARD[3] = 0
    /\ BOARD[4] = 0
    /\ ~decode_panics(BOARD)
    /\ \A i \in Cells : field_at(BOARD, decode_shift(i)) \in {0, 1, 2}

\* A place request has put a Milk tile in cell 15, the highest field of the
\* word: bit 31 is set.
BoardWordValidWitness ==
    /\ \E p \in Procs : game[p].pc = "pl_render" /\ game[p].team = "Milk"
                          /\ game[p].column = 3
    /\ field_at(BOARD, 30) = 2
    /\ BOARD[2] >= 2^15

\* Some line of the board is owned by the tile p.
Owns(tiles, p) ==
    \E k \in 1..10 : is_winning_line(lines_in_order(tiles)[k])
                      /\ lines_in_order(tiles)[k][1] = p

\* C13: at most one winner.  In every reachable state BOARD has no two
\* winning lines owned by different players.
AtMostOneWinner ==
    ~(Owns(Board_decode(BOARD), "Cookie") /\ Owns(Board_decode(BOARD), "Milk"))

\* The column of the word has no Empty cell.
ColumnFull(word, column) ==
    \A r \in 1..4 : get_col(Board_decode(word), column)[r] # "Empty"

\* C15: column full.  A place request goes on to its CAS only with a word
\* whose targeted column has an Empty cell; when the word fetch_update
\* observed has none, the request leaves BOARD as it is, from the observation
\* to the answer, and answers 503 with an empty body.
ColumnFullNoWrite ==
    [][\A p \in Procs :
          /\ game'[p].pc = "pl_cas" => ~ColumnFull(game'[p].prev, game'[p].column)
          /\ game'[p].pc = "pl_full" =>
                /\ ColumnFull(game'[p].prev, game'[p].column)
                /\ game[p].pc \in {"pl_load", "pl_cas", "pl_full"}
                /\ game'[p] # game[p] => BOARD' = BOARD
          /\ (game[p].pc = "pl_full" /\ game'[p] # game[p]) =>
                /\ BOARD' = BOARD
                /\ placed' = placed
                /\ game'[p] = Resting
                /\ answer' = Response(p, "place", 503, NoBody)
          /\ (answer'.op = "place" /\ answer'.proc = p /\ answer'.status = 503
               /\ answer'.body = NoBody) => game[p].pc = "pl_full"]_vars

\* A place request was answered 503 without body while the game was still in
\* progress and the request that took the last cell of the column had not
\* answered yet.
ColumnFullWitness ==
    /\ answer.op = "place"
    /\ answer.status = 503
    /\ answer.body = NoBody
    /\ ~is_terminal(Board_decode(BOARD))
    /\ \E q \in Procs :
          /\ q # answer.proc
          /\ game[q].pc = "pl_render"
          /\ ColumnFull(BOARD, game[q].column)
          /\ ~ColumnFull(game[q].prev, game[q].column)

\* The board the place request p wrote with its CAS (p is at pl_render).
Written(p) ==
    place_closure(game[p].prev, game[p].column, game[p].team).state

\* C16: a place request whose move is applied and makes the board a Draw
\* answers 503 with the rendered board.
DrawAnswers503 ==
    [][\A p \in Procs :
          (/\ game[p].pc = "pl_render"
           /\ game'[p] = Resting
           /\ check_for_winner(Board_decode(Written(p))).tag = "Err")
          => (answer'.status = 503 /\ answer'.body # NoBody)]_vars

\* The word holds a board that is Won (some line is owned) or Draw (no line
\* is owned and no cell is Empty).
WonOrDraw(word) ==
    \/ Owns(Board_decode(word), "Cookie")
    \/ Owns(Board_decode(word), "Milk")
    \/ \A i \in Cells : Board_decode(word)[i] # "Empty"

\* C17: a valid place request that finds the board Won or Draw at its
\* pre-check (and only such a request) takes the branch that answers 503 with
\* the render of the board as loaded for the answer; it never enters
\* fetch_update and leaves BOARD as it is.
PreCheckRejects ==
    [][\A p \in Procs :
          /\ (game[p].pc = "idle" /\ game'[p].op = "place") =>
                /\ BOARD' = BOARD
                /\ game'[p].pc = IF WonOrDraw(BOARD)
                                 THEN "pl_term" ELSE "pl_load"
          /\ game'[p].pc = "pl_term" => game[p].pc \in {"idle", "pl_term"}
          /\ (game[p].pc = "pl_term" /\ game'[p] # game[p]) =>
                /\ BOARD' = BOARD
                /\ placed' = placed
                /\ game'[p] = Resting
                /\ answer' = Response(p, "place", 503, render_board(BOARD))]_vars

\* A place request found the board a Draw at its pre-check and was answered
\* 503 with the render of the full board.
PreCheckRejectsWitness ==
    /\ answer.op = "place"
    /\ answer.status = 503
    /\ check_for_winner(Board_decode(BOARD)).tag = "Err"
    /\ answer.body = render_board(BOARD)
    /\ placed = 16

\* C21: reset always succeeds, sets BOARD to 0, and the body it returns is the
\* render of the all-Empty board, whatever place requests run concurrently.
ResetAnswersEmpty ==
    /\ [](answer.op = "reset" =>
            answer = Response(answer.proc, "reset", 200, render(EmptyBoard)))
    /\ [][\A p \in Procs : ResetWrites(p) => BOARD' = ZeroWord]_vars

\* C24: gravity holds of every board the handlers reach, whatever the order
\* and the interleaving of reset and place requests: no column has an Empty
\* cell at a higher row index than a cell that is not Empty.
NoFloatingTile ==
    LET tiles == Board_decode(BOARD)
    IN  \A c \in 0..3, r \in 0..3, s \in 0..3 :
            (r < s /\ tiles[c + 4 * r] # "Empty") => tiles[c + 4 * s] # "Empty"

\* Two place requests of different teams, both started on the empty board,
\* have written into the same column: its rows 3 and 2 are taken, rows 1 and
\* 0 are Empty.
NoFloatingTileWitness ==
    \E c \in 0..3 :
        LET tiles == Board_decode(BOARD)
        IN  /\ \A p \in Procs : game[p].pc = "pl_render" /\ game[p].column = c
            /\ game[1].team # game[2].team
            /\ \E p \in Procs : game[p].prev = ZeroWord
            /\ tiles[c + 12] # "Empty"
            /\ tiles[c + 8] # "Empty"
            /\ tiles[c + 4] = "Empty"
            /\ tiles[c] = "Empty"

\* C28: cells are write-once between resets.  The CAS of a place request
\* changes exactly one cell, from Empty to the team of the request, and
\* leaves the other 15 cells as they were; a step in which a cell that is not
\* Empty changes is the CAS of a reset.
CellsWriteOnce ==
    [][LET old == Board_decode(BOARD)
           new == Board_decode(BOARD')
       IN  /\ \A p \in Procs :
                 PlaceWrites(p) =>
                     \E i \in Cells :
                         /\ old[i] = "Empty"
                         /\ new[i] = game[p].team
                         /\ new[i] # "Empty"
                         /\ \A j \in Cells \ {i} : new[j] = old[j]
           /\ (\E i \in Cells : old[i] # "Empty" /\ new[i] # old[i])
                 => \E p \in Procs : ResetWrites(p)]_vars

\* A place request of Milk has written its tile on a board that already held
\* tiles, while the other process holds a place request for another column
\* that observed the board before that write.
CellsWriteOnceWitness ==
    /\ game[1].pc = "pl_render"
    /\ game[1].team = "Milk"
    /\ game[2].pc = "pl_cas"
    /\ game[1].column # game[2].column
    /\ game[2].prev = game[1].prev
    /\ game[1].prev # ZeroWord
    /\ BOARD # game[1].prev
    /\ Board_decode(BOARD)[game[1].column + 12] # "Empty"

\* ------------------------------------ day_12.rs: the functions on their own
\* Boards given to the functions of Board: four rows, each one of these.
RowPatterns ==
    { <<"Empty", "Empty", "Empty", "Empty">>,
      <<"Cookie", "Cookie", "Cookie", "Cookie">>,
      <<"Milk", "Milk", "Milk", "Milk">>,
      <<"Cookie", "Milk", "Empty", "Milk">>,
      <<"Milk", "Empty", "Cookie", "Empty">>,
      <<"Empty", "Cookie", "Milk", "Cookie">> }

\* The word whose sixteen 2-bit fields are the given values, the upper 32
\* bits zero: field i has weight 4^i, eight fields to a limb.
RECURSIVE fields_sum(_, _, _)
fields_sum(values, i, last) ==
    IF i > last THEN 0 ELSE values[i] + 4 * fields_sum(values, i + 1, last)

word_of_fields(values) ==
    <<fields_sum(values, 0, 7), fields_sum(values, 8, 15), 0, 0>>

BoardCodecInit ==
    /\ BucketIdle
    /\ BoardIdle
    /\ \E r0 \in RowPatterns, r1 \in RowPatterns, r2 \in RowPatterns,
          r3 \in RowPatterns :
          call = [fn |-> "Board_encode",
                  args |-> <<board_of_rows(<<r0, r1, r2, r3>>)>>]
    /\ out = Pending

\* encode followed by decode on a board, and decode followed by encode on the
\* word that holds the board's discriminants.
ApplyBoardCodec ==
    /\ call.fn = "Board_encode"
    /\ out = Pending
    /\ LET tiles == call.args[1]
           encoded == Board_encode(tiles)
           word == word_of_fields([i \in Cells |-> tile_as_u64(tiles[i])])
       IN  out' = [kind |-> "board_codec",
                   encoded |-> encoded,
                   decoded |-> Board_decode(encoded),
                   word |-> word,
                   panics |-> decode_panics(word),
                   reencoded |-> Board_encode(Board_decode(word))]
    /\ UNCHANGED <<bucketVars, boardVars, call>>

SpecBoardCodec == BoardCodecInit /\ [][ApplyBoardCodec]_vars

\* C10: decode(encode(b)) = b for a board b of 16 tiles; and
\* encode(decode(x)) = x for a word x whose upper 32 bits are zero and whose
\* sixteen fields are in {0, 1, 2} (decode does not panic on it).
BoardRoundTrip ==
    (call.fn = "Board_encode" /\ out # Pending) =>
        /\ out.decoded = call.args[1]
        /\ ~out.panics
        /\ out.reencoded = out.word
        /\ out.word[3] = 0 /\ out.word[4] = 0

\* A board with a Milk tile in cell 15 (the highest field) and a Cookie tile
\* in cell 0 went through both round trips.
BoardRoundTripWitness ==
    /\ call.fn = "Board_encode"
    /\ out # Pending
    /\ call.args[1][15] = "Milk"
    /\ call.args[1][0] = "Cookie"
    /\ call.args[1][7] = "Empty"
    /\ out.word[2] >= 2^15
    /\ out.decoded = call.args[1]

\* ------------------------------------------- day_12.rs: check_for_winner
\* Rows of the boards given to check_for_winner, push_item and render: the
\* rows of RowPatterns and four full rows that are no winning line.
FullRows ==
    { <<"Cookie", "Milk", "Cookie", "Milk">>,
      <<"Milk", "Cookie", "Milk", "Cookie">>,
      <<"Cookie", "Cookie", "Milk", "Milk">>,
      <<"Milk", "Milk", "Cookie", "Cookie">> }

OutcomeRows == RowPatterns \cup FullRows

OutcomeInit ==
    /\ BucketIdle
    /\ BoardIdle
    /\ \E r0 \in OutcomeRows, r1 \in OutcomeRows, r2 \in OutcomeRows,
          r3 \in OutcomeRows :
          call = [fn |-> "check_for_winner",
                  args |-> <<board_of_rows(<<r0, r1, r2, r3>>)>>]
    /\ out = Pending

ApplyOutcome ==
    /\ call.fn = "check_for_winner"
    /\ out = Pending
    /\ out' = [kind |-> "outcome", result |-> check_for_winner(call.args[1])]
    /\ UNCHANGED <<bucketVars, boardVars, call>>

SpecOutcome == OutcomeInit /\ [][ApplyOutcome]_vars

\* The cells of the ten lines: rows, columns, diagonal 0-5-10-15, diagonal
\* 3-6-9-12.
LineCells ==
    << <<0, 1, 2, 3>>, <<4, 5, 6, 7>>, <<8, 9, 10, 11>>, <<12, 13, 14, 15>>,
       <<0, 4, 8, 12>>, <<1, 5, 9, 13>>, <<2, 6, 10, 14>>, <<3, 7, 11, 15>>,
       <<0, 5, 10, 15>>, <<3, 6, 9, 12>> >>

\* Line k of the board has its 4 cells equal to the non-Empty tile p.
LineOwnedBy(tiles, k, p) ==
    p # "Empty" /\ \A c \in 1..4 : tiles[LineCells[k][c]] = p

LineWins(tiles, k) ==
    \E p \in {"Cookie", "Milk"} : LineOwnedBy(tiles, k, p)

\* C12: check_for_winner returns Won(p) iff some line is owned by p, p being
\* the owner of the first owned line in the order rows, columns, diagonal
\* 0-5-10-15, diagonal 3-6-9-12; Draw iff no line is owned and no cell is
\* Empty; InProgress otherwise.  A full board with an owned line is Won.
OutcomeDetection ==
    (call.fn = "check_for_winner" /\ out # Pending) =>
        LET tiles == call.args[1]
            res == out.result
            won == \E k \in 1..10 : LineWins(tiles, k)
            full == \A i \in Cells : tiles[i] # "Empty"
        IN  /\ \A p \in {"Cookie", "Milk"} :
                  (res = [tag |-> "Ok", winner |-> p]) <=>
                      \E k \in 1..10 :
                          /\ LineOwnedBy(tiles, k, p)
                          /\ \A j \in 1..(k - 1) : ~LineWins(tiles, j)
            /\ (res.tag = "Ok" /\ res.winner \in {"Cookie", "Milk"}) <=> won
            /\ (res.tag = "Err") <=> (~won /\ full)
            /\ (res = [tag |-> "Ok", winner |-> "None"]) <=> (~won /\ ~full)
            /\ res.winner # "Empty"

\* A full board on which row 1 is owned by Milk and row 2 by Cookie: the
\* outcome is Won(Milk), the owner of the first owned line, not Draw.
OutcomeDetectionWitness ==
    /\ call.fn = "check_for_winner"
    /\ out # Pending
    /\ call.args[1] =
          board_of_rows(<< <<"Cookie", "Milk", "Cookie", "Milk">>,
                           <<"Milk", "Milk", "Milk", "Milk">>,
                           <<"Cookie", "Cookie", "Cookie", "Cookie">>,
                           <<"Milk", "Cookie", "Milk", "Cookie">> >>)
    /\ out.result = [tag |-> "Ok", winner |-> "Milk"]

\* ------------------------------------------------- day_12.rs: push_item
\* Number of push_item calls made one after the other on a board.
MaxPush == 5

PushBoards == {EmptyBoard, NearDraw}
Players == {"Cookie", "Milk"}

\* out.tiles is the board so far, out.log the column of each call and the row
\* it wrote (-1 for Err), out.before the board the last call was made on.
PushInit ==
    /\ BucketIdle
    /\ BoardIdle
    /\ \E start \in PushBoards :
          /\ call = [fn |-> "push_item", args |-> <<start>>]
          /\ out = [kind |-> "pushed", tag |-> "Ok", before |-> start,
                    tiles |-> start, col |-> 0, item |-> "Empty", log |-> <<>>]

ApplyPush ==
    /\ call.fn = "push_item"
    /\ Len(out.log) < MaxPush
    /\ \E col_idx \in 0..3, item \in Players :
          LET pushed == push_item(out.tiles, col_idx, item)
              written == {r \in 0..3 : pushed.tiles[col_idx + 4 * r]
                                           # out.tiles[col_idx + 4 * r]}
              row == IF pushed.tag = "Err" \/ written = {} THEN -1
                     ELSE CHOOSE r \in written : TRUE
          IN  out' = [kind |-> "pushed", tag |-> pushed.tag,
                      before |-> out.tiles, tiles |-> pushed.tiles,
                      col |-> col_idx, item |-> item,
                      log |-> Append(out.log, <<col_idx, row>>)]
    /\ UNCHANGED <<bucketVars, boardVars, call>>

SpecPush == PushInit /\ [][ApplyPush]_vars

\* The rows written by the calls on column c, in order.
RECURSIVE rows_of(_, _)
rows_of(log, c) ==
    IF log = <<>> THEN <<>>
    ELSE IF Head(log)[1] = c THEN <<Head(log)[2]>> \o rows_of(Tail(log), c)
    ELSE rows_of(Tail(log), c)

\* C14: gravity.  push_item(col, player) sets the Empty cell of the column
\* with the highest row index to player and leaves the other 15 cells as they
\* were (Err and no change if the column has no Empty cell); on a column that
\* was empty, successive calls write rows 3, 2, 1, 0 in that order and every
\* later call fails.
Gravity ==
    (call.fn = "push_item" /\ out.log # <<>>) =>
        LET before == out.before
            after == out.tiles
            c == out.col
            empties == {r \in 0..3 : before[c + 4 * r] = "Empty"}
        IN  /\ (out.tag = "Err") <=> (empties = {})
            /\ out.tag = "Err" => after = before
            /\ out.tag = "Ok" =>
                  \E r \in empties :
                      /\ \A q \in empties : q <= r
                      /\ after[c + 4 * r] = out.item
                      /\ \A i \in Cells : i # c + 4 * r => after[i] = before[i]
            /\ \A k \in 0..3 :
                  (\A r \in 0..3 : call.args[1][k + 4 * r] = "Empty") =>
                      LET rows == rows_of(out.log, k)
                      IN  \A n \in 1..Len(rows) :
                              rows[n] = IF n <= 4 THEN 4 - n ELSE -1

\* Five calls on column 0 of the empty board: rows 3, 2, 1, 0 were written
\* and the fifth call failed, leaving the board as it was.
GravityWitness ==
    /\ call = [fn |-> "push_item", args |-> <<EmptyBoard>>]
    /\ rows_of(out.log, 0) = <<3, 2, 1, 0, -1>>
    /\ out.tag = "Err"
    /\ out.tiles = out.before
    /\ \A r \in 0..3 : out.tiles[4 * r] # "Empty"

\* ------------------------------ day_12.rs: requests one after the other
\* Number of place requests a client sends between two resets, each one
\* after the answer to the one before.
MaxSeq == 5

SeqTeams == {"cookie", "milk"}
SeqColumns == {"1", "2", "5"}

\* call.args is the list of the place requests sent since the last reset
\* (or since the start, when BOARD is 0 as well): team, column and the status
\* of the answer.
SeqInit ==
    /\ BucketIdle
    /\ BoardIdle
    /\ call = [fn |-> "client", args |-> <<>>]
    /\ out = Pending

\* A whole reset request with no other request in flight.
SeqReset ==
    /\ call.fn = "client"
    /\ BOARD' = ZeroWord
    /\ placed' = 0
    /\ answer' = Response(1, "reset", 200, render_board(ZeroWord))
    /\ call' = [call EXCEPT !.args = <<>>]
    /\ UNCHANGED <<game, plays, bucketVars, out>>

\* A whole place request with no other request in flight: the pre-check and
\* fetch_update observe the same word and the CAS does not meet another
\* writer.
SeqPlace ==
    /\ call.fn = "client"
    /\ Len(call.args) < MaxSeq
    /\ \E team_token \in SeqTeams, column_token \in SeqColumns :
          LET v == validate(team_token, column_token)
              closure == place_closure(BOARD, v.column, v.team)
              g == [Resting EXCEPT !.op = "place", !.team = v.team,
                                   !.column = v.column, !.prev = BOARD]
              wrote == v.ok /\ ~is_terminal(Board_decode(BOARD))
                            /\ closure.kind = "Some"
              word == IF wrote THEN closure.state ELSE BOARD
              resp == IF ~v.ok THEN Response(1, "place", 400, NoBody)
                      ELSE IF is_terminal(Board_decode(BOARD))
                      THEN Response(1, "place", 503, render_board(BOARD))
                      ELSE IF closure.kind = "None"
                      THEN place_response(1, [g EXCEPT !.pc = "pl_full"], word)
                      ELSE place_response(1, [g EXCEPT !.pc = "pl_render"], word)
          IN  /\ BOARD' = word
              /\ placed' = IF wrote THEN placed + 1 ELSE placed
              /\ answer' = resp
              /\ call' = [call EXCEPT !.args =
                              Append(@, <<team_token, column_token, resp.status>>)]
    /\ UNCHANGED <<game, plays, bucketVars, out>>

SeqNext ==
    \/ SeqReset
    \/ SeqPlace

SpecSeq == SeqInit /\ [][SeqNext]_vars

RenderRows == OutcomeRows \cup { <<"Cookie", "Empty", "Empty", "Empty">> }

RenderInit ==
    /\ BucketIdle
    /\ BoardIdle
    /\ \E r0 \in RenderRows, r1 \in RenderRows, r2 \in RenderRows,
          r3 \in RenderRows :
          call = [fn |-> "render", args |-> <<board_of_rows(<<r0, r1, r2, r3>>)>>]
    /\ out = Pending

ApplyRender ==
    /\ call.fn = "render"
    /\ out = Pending
    /\ out' = [kind |-> "rendered", body |-> render(call.args[1])]
    /\ UNCHANGED <<bucketVars, boardVars, call>>

SpecRender == RenderInit /\ [][ApplyRender]_vars

\* The board of test_render_with_cookies: Cookie in column 0, the rest Empty.
CookieColumn ==
    board_of_rows(<< <<"Cookie", "Empty", "Empty", "Empty">>,
                     <<"Cookie", "Empty", "Empty", "Empty">>,
                     <<"Cookie", "Empty", "Empty", "Empty">>,
                     <<"Cookie", "Empty", "Empty", "Empty">> >>)

\* The five grid lines the test expects for it.
CookieColumnGrid ==
    LET line == <<WHITE_SQUARE, COOKIE_EMOJI, BLACK_SQUARE, BLACK_SQUARE,
                  BLACK_SQUARE, WHITE_SQUARE, NEWLINE>>
    IN  line \o line \o line \o line
        \o <<WHITE_SQUARE, WHITE_SQUARE, WHITE_SQUARE, WHITE_SQUARE,
              WHITE_SQUARE, WHITE_SQUARE>>

LiveMilk == 2

\* The two atomics share no state: a behaviour runs requests on one of them,
\* named by call.fn.
LiveInit ==
    /\ BucketIdle
    /\ \E side \in {"bucket", "board"}, start \in {EmptyBoard, OneLeft} :
          /\ side = "bucket" => start = EmptyBoard
          /\ call = [fn |-> side, args |-> <<>>]
          /\ BOARD = Board_encode(start)
          /\ placed = tiles_placed(start)
    /\ game = [p \in Procs |-> Resting]
    /\ plays = [place |-> 0, reset |-> 0, board |-> 0]
    /\ answer = NoAnswer
    /\ out = Pending

\* The clock is read at 0 and at 5000; place requests name column 1 or 4 or
\* are malformed.
LiveTick == call.fn = "bucket" /\ Tick /\ clock' = 5000
LiveMilkLoad(p) == call.fn = "bucket" /\ started.milk < LiveMilk /\ MilkLoad(p)
LiveRefillNow(p) == call.fn = "bucket" /\ RefillNow(p)
LiveResetLoad(p) == call.fn = "board" /\ ResetLoad(p)
LivePlaceCheck(p) == call.fn = "board" /\ PlaceCheck(p) /\ game'[p].column \in {0, 3}

LiveNext ==
    \/ LiveTick
    \/ \E p \in Procs : LiveMilkLoad(p)
    \/ \E p \in Procs : MilkEval(p)
    \/ \E p \in Procs : MilkCas(p)
    \/ \E p \in Procs : LiveRefillNow(p)
    \/ \E p \in Procs : RefillSwap(p)
    \/ \E p \in Procs : LiveResetLoad(p)
    \/ \E p \in Procs : ResetCas(p)
    \/ \E p \in Procs : ResetRender(p)
    \/ \E p \in Procs : LivePlaceCheck(p)
    \/ \E p \in Procs : PlaceTerminal(p)
    \/ \E p \in Procs : PlaceLoad(p)
    \/ \E p \in Procs : PlaceCas(p)
    \/ \E p \in Procs : PlaceRender(p)

\* The CAS of the milk request p stores its word.
MilkWrites(p) ==
    /\ handler[p].pc = "fu_cas"
    /\ handler'[p].pc = "done"
    /\ BUCKET_STATE' # BUCKET_STATE \/ handler[p].prev = BUCKET_STATE

\* The swap of the refill request p.
RefillWrites(p) ==
    /\ handler[p].pc = "rf_swap"
    /\ handler'[p].pc = "done"

\* Fair scheduling: a request that can take its next step takes it.  No
\* handler suspends, so every step of a started request is taken in the end;
\* compare_exchange_weak may fail spuriously, but not for ever when the word
\* holds the expected value again and again.
\*
\* The steps that evaluate a closure are given their fairness with the
\* enabling condition written out as the position of the request:
\*   - MilkEval(p) is enabled exactly at fu_eval and fu_again, MilkCas(p) at
\*     fu_cas, PlaceLoad(p) at pl_load, and each of them leaves the position:
\*     weak fairness is that p is not at the position for ever;
\*   - PlaceCas(p) can change the state whenever p is at pl_cas: weak
\*     fairness is that p leaves pl_cas or its CAS changes game[p] again and
\*     again;
\*   - the CAS of milk can store exactly when p is at fu_cas and BUCKET_STATE
\*     holds the word p observed: strong fairness is that this is false from
\*     some point on or the store happens again and again.
LiveFairness ==
    \A p \in Procs :
        /\ []<>(handler[p].pc \notin {"fu_eval", "fu_again"})
        /\ []<>(handler[p].pc # "fu_cas")
        /\ \/ <>[]~(handler[p].pc = "fu_cas" /\ BUCKET_STATE = handler[p].prev)
           \/ []<><<MilkWrites(p)>>_vars
        /\ WF_vars(RefillSwap(p))
        /\ WF_vars(ResetCas(p))
        /\ WF_vars(ResetRender(p))
        /\ WF_vars(PlaceTerminal(p))
        /\ []<>(game[p].pc # "pl_load")
        /\ \/ []<>(game[p].pc # "pl_cas")
           \/ []<><<game[p].pc = "pl_cas" /\ game'[p] # game[p]>>_vars
        /\ WF_vars(PlaceRender(p))

SpecLive == LiveInit /\ [][LiveNext]_vars /\ LiveFairness

\* C22 as stated, its second part: a request retries its CAS only when
\* another request's write succeeded in between, that is, only when the word
\* no longer holds the value the request observed.
RetryOnlyOnContention ==
    [][\A p \in Procs :
          /\ (handler[p].pc = "fu_cas" /\ handler'[p].pc = "fu_again")
                => BUCKET_STATE # handler[p].prev
          /\ (/\ game[p].pc \in {"pl_cas", "rs_cas"}
              /\ game'[p] # game[p]
              /\ ~PlaceWrites(p)
              /\ ~ResetWrites(p))
                => BOARD # game[p].prev]_vars

\* C22, amended: under fair scheduling, and compare_exchange_weak not failing
\* spuriously for ever, every request completes.  A failed CAS writes
\* nothing and hands the request the word it found, on which the closure is
\* evaluated again; the words change only by the successful CAS of a milk,
\* place or reset request or by the swap of a refill.  A CAS fails either
\* because the word no longer holds the value observed or spuriously.
RetryTerminates ==
    /\ \A p \in Procs :
          (handler[p].pc \in {"fu_eval", "fu_again", "fu_cas", "rf_swap"})
              ~> (handler[p].pc = "done")
    /\ \A p \in Procs : (game[p].pc # "idle") ~> (game[p].pc = "idle")
    /\ [][\A p \in Procs :
             /\ (handler[p].pc = "fu_cas" /\ handler'[p].pc = "fu_again") =>
                   /\ BUCKET_STATE' = BUCKET_STATE
                   /\ handler'[p].prev = BUCKET_STATE
             /\ (/\ game[p].pc \in {"pl_cas", "rs_cas"}
                 /\ game'[p] # game[p]
                 /\ ~PlaceWrites(p)
                 /\ ~ResetWrites(p)) =>
                   /\ BOARD' = BOARD
                   /\ game'[p].prev = BOARD
                   /\ BOARD # game[p].prev]_vars
    /\ [][BUCKET_STATE' # BUCKET_STATE =>
             \E q \in Procs : MilkWrites(q) \/ RefillWrites(q)]_vars
    /\ [][BOARD' # BOARD =>
             \E q \in Procs : PlaceWrites(q) \/ ResetWrites(q)]_vars

\* The CAS of a milk request failed on a word that a refill had stored after
\* the request observed the bucket: the request evaluates the closure again
\* on that word.
RetryTerminatesWitness ==
    \E p \in Procs, q \in Procs :
        /\ handler[p].pc = "fu_again"
        /\ handler[p].op = "milk"
        /\ handler[q].pc = "done"
        /\ handler[q].op = "refill"
        /\ handler[p].prev = BUCKET_STATE
        /\ LevelOf(BUCKET_STATE) = MAX_BUCKET_SIZE

\* ------------------------------- day_9.rs: requests one after the other
\* Number of milk and refill requests a client sends, each one after the
\* answer to the one before.
MaxBucketSeq == 3

\* call.args is the list of the requests sent: the operation, the clock when
\* it ran, the status answered, whether BUCKET_STATE was written and the
\* level it held afterwards.
BucketSeqInit ==
    /\ BucketIdle
    /\ BoardIdle
    /\ call = [fn |-> "bucket client", args |-> <<>>]
    /\ out = Pending

\* The instants at which the client's requests read the clock.
BucketSeqTick ==
    /\ call.fn = "bucket client"
    /\ \E t \in {0, 500, 1024, 1279, 2023, 2024, 2279, 5000, 7000} :
          t > clock /\ clock' = t
    /\ UNCHANGED <<BUCKET_STATE, handler, started, served, denied, calm, flaw,
                   boardVars, pureVars>>

\* A whole milk request with no other request in flight: the closure is
\* evaluated once, on the word loaded, and the CAS does not meet another
\* writer.
BucketSeqMilk ==
    /\ call.fn = "bucket client"
    /\ Len(call.args) < MaxBucketSeq
    /\ LET r == milk_closure(BUCKET_STATE, capture_now(handler[1], clock))
       IN  \E input \in MilkBodies,
              outcome \in (IF r.flaw \in {"ts", "add"}
                           THEN {"panic", "wrap"} ELSE {"run"}) :
              LET wrote == outcome # "panic" /\ r.kind = "Some"
                  resp == IF outcome = "panic"
                          THEN [status |-> 500, body |-> ""]
                          ELSE IF r.kind = "None"
                          THEN [status |-> 429, body |-> "No milk available\n"]
                          ELSE milk_response(input)
                  word == IF wrote THEN r.state ELSE BUCKET_STATE
              IN  /\ BUCKET_STATE' = word
                  /\ handler' = [handler EXCEPT ![1] = Done("milk", resp)]
                  /\ served' = IF wrote THEN served + 1 ELSE served
                  /\ denied' = IF outcome # "panic" /\ r.kind = "None"
                               THEN denied + 1 ELSE denied
                  /\ call' = [call EXCEPT !.args =
                        Append(@, [op |-> "milk", at |-> clock,
                                   status |-> resp.status, wrote |-> wrote,
                                   level |-> LevelOf(word)])]
                  /\ flaw' = IF flaw = "none" THEN r.flaw ELSE flaw
                  /\ calm' = (calm /\ r.delta = 0 /\ r.flaw = "none")
    /\ started' = [started EXCEPT !.milk = @ + 1]
    /\ UNCHANGED <<clock, boardVars, out>>

\* A whole refill request with no other request in flight.
BucketSeqRefill ==
    /\ call.fn = "bucket client"
    /\ Len(call.args) < MaxBucketSeq
    /\ BUCKET_STATE' = refill_state(BUCKET_STATE, clock)
    /\ handler' = [handler EXCEPT ![1] =
            Done("refill", [status |-> 200, body |-> ""])]
    /\ started' = [started EXCEPT !.refill = @ + 1]
    /\ served' = 0
    /\ denied' = 0
    /\ calm' = TRUE
    /\ call' = [call EXCEPT !.args =
            Append(@, [op |-> "refill", at |-> clock, status |-> 200,
                       wrote |-> TRUE, level |-> LevelOf(BUCKET_STATE')])]
    /\ UNCHANGED <<clock, flaw, boardVars, out>>

BucketSeqNext ==
    \/ BucketSeqTick
    \/ BucketSeqMilk
    \/ BucketSeqRefill

SpecBucketSeq == BucketSeqInit /\ [][BucketSeqNext]_vars

\* Request n of the client was a withdrawal that succeeded and left level 0,
\* request m is a later withdrawal, and no request between them wrote
\* BUCKET_STATE (there was no refill and no successful withdrawal).
AskedAfterEmptied(n, m) ==
    /\ n < m
    /\ call.args[n].op = "milk"
    /\ call.args[n].wrote
    /\ call.args[n].level = 0
    /\ call.args[m].op = "milk"
    /\ \A k \in (n + 1)..(m - 1) :
          call.args[k].op = "milk" /\ ~call.args[k].wrote

\* C26 as stated: after a withdrawal that succeeded at t1 and left level 0,
\* with no refill in between, every withdrawal at t2 with t2 - t1 < 1000 ms
\* fails.
RateBoundFromEmpty ==
    call.fn = "bucket client" =>
        \A n \in 1..Len(call.args), m \in 1..Len(call.args) :
            (AskedAfterEmptied(n, m)
               /\ call.args[m].at - call.args[n].at < REFILL_TIME_MS)
                => (~call.args[m].wrote /\ call.args[m].status = 429)

\* C26 as amended: after a withdrawal that succeeded at t1 and left level 0,
\* with no refill in between, a withdrawal at t2 fails exactly when
\* t2 - (t1 rounded down to a multiple of 256) < 1000 ms; so it fails whenever
\* t2 - t1 < 745 ms, and it succeeds whenever t2 - t1 >= 1000 ms.
RateBoundFromStoredStamp ==
    call.fn = "bucket client" =>
        \A n \in 1..Len(call.args), m \in 1..Len(call.args) :
            AskedAfterEmptied(n, m) =>
                LET t1 == call.args[n].at
                    t2 == call.args[m].at
                    fails == ~call.args[m].wrote /\ call.args[m].status = 429
                IN  /\ fails <=> (t2 - (t1 - (t1 % 256)) < REFILL_TIME_MS)
                    /\ t2 - t1 < REFILL_TIME_MS - 255 => fails
                    /\ t2 - t1 >= REFILL_TIME_MS => call.args[m].wrote

\* The bucket was emptied at 1279 ms (stored timestamp 1024), a withdrawal at
\* 2023 ms was denied and one at 2024 ms, 745 ms after the first, succeeded.
RateBoundWitness ==
    /\ call.fn = "bucket client"
    /\ Len(call.args) = 3
    /\ AskedAfterEmptied(1, 3)
    /\ call.args[1].at = 1279
    /\ call.args[2].at = 2023
    /\ call.args[2].status = 429
    /\ call.args[3].at = 2024
    /\ call.args[3].wrote

\* C27: from the initial word 0 (level 0, timestamp 0), with no refill
\* request made, the first milk request at any clock time now >= 5000 ms
\* succeeds and leaves level 4.
FirstWithdrawAfterLongIdle ==
    (/\ call.fn = "bucket client"
     /\ Len(call.args) >= 1
     /\ call.args[1].op = "milk"
     /\ call.args[1].at >= 5 * REFILL_TIME_MS) =>
        /\ call.args[1].wrote
        /\ call.args[1].level = MAX_BUCKET_SIZE - 1
        /\ call.args[1].status \in {200, 400}
        /\ (Len(call.args) = 1 =>
              /\ LevelOf(BUCKET_STATE) = 4
              /\ StampOf(BUCKET_STATE) =
                    call.args[1].at - (call.args[1].at % 256)
              /\ started.refill = 0)

\* The first request of the client was a withdrawal at 7000 ms, answered 200.
FirstWithdrawWitness ==
    /\ call.fn = "bucket client"
    /\ Len(call.args) = 1
    /\ call.args[1].op = "milk"
    /\ call.args[1].at = 7000
    /\ call.args[1].status = 200
    /\ LevelOf(BUCKET_STATE) = 4

\* ----------------------------------------- claims on the bucket, continued
\* C23: a refill request always succeeds and, whatever the bucket held and
\* whatever requests run beside it, the word it stores decodes to level
\* MAX_BUCKET_SIZE with the timestamp of the refill's own now, rounded down to
\* a multiple of 256 ms.
RefillStoresFull ==
    [][\A p \in Procs :
          RefillWrites(p) =>
              /\ LevelOf(BUCKET_STATE') = MAX_BUCKET_SIZE
              /\ StampOf(BUCKET_STATE') = handler[p].now - (handler[p].now % 256)
              /\ handler'[p].resp.status = 200]_vars

\* A refill has answered 200 at 5000 ms while a milk request stood between its
\* evaluation and its CAS: the bucket holds level 5, timestamp 4864.
RefillStoresFullWitness ==
    \E p \in Procs, q \in Procs :
        /\ handler[q].pc = "done"
        /\ handler[q].op = "refill"
        /\ handler[q].resp.status = 200
        /\ handler[p].pc = "fu_cas"
        /\ handler[p].prev # BUCKET_STATE
        /\ LevelOf(BUCKET_STATE) = MAX_BUCKET_SIZE
        /\ StampOf(BUCKET_STATE) = 4864

\* C25: under the monotonic clock and any interleaving of milk and refill
\* requests, every evaluation of the closure of milk, the evaluations after a
\* failed CAS included, reads a now that is not before the timestamp decoded
\* from the word it was handed: now - old_ts never leaves the u64 range.
ElapsedNeverUnderflows ==
    /\ flaw # "ts"
    /\ \A p \in Procs :
          handler[p].pc \in {"fu_eval", "fu_again", "fu_cas"} =>
              StampOf(handler[p].prev) <= clock
    /\ StampOf(BUCKET_STATE) <= clock

\* A milk request evaluated the closure a second time on a word whose
\* timestamp a refill had set after the request's first reading of the clock.
ElapsedNeverUnderflowsWitness ==
    \E p \in Procs :
        /\ handler[p].pc = "fu_cas"
        /\ handler[p].first < StampOf(handler[p].prev)
        /\ handler[p].now >= StampOf(handler[p].prev)
        /\ LevelOf(handler[p].prev) = MAX_BUCKET_SIZE

\* ------------------------------------------------- day_2.rs: dest and key
\* u8::overflowing_add(..).0 and u8::overflowing_sub(..).0: the wrapped result.
overflowing_add(a, b) == (a + b) % 256
overflowing_sub(a, b) == ((a + 256) - b) % 256

\* u8::bitxor.
RECURSIVE bitxor(_, _)
bitxor(a, b) ==
    IF a = 0 THEN b
    ELSE IF b = 0 THEN a
    ELSE (((a % 2) + (b % 2)) % 2) + 2 * bitxor(a \div 2, b \div 2)

\* A faulty variant of dest: the addresses are added as 32-bit numbers, so a
\* carry passes from an octet to the one before it.
dest_with_carry(from, key) ==
    LET s4 == from[4] + key[4]
        s3 == from[3] + key[3] + (s4 \div 256)
        s2 == from[2] + key[2] + (s3 \div 256)
        s1 == from[1] + key[1] + (s2 \div 256)
    IN  <<s1 % 256, s2 % 256, s3 % 256, s4 % 256>>

\* dest: the octets of the destination, from + key octet by octet.
dest(from, key) ==
    <<overflowing_add(from[1], key[1]), overflowing_add(from[2], key[2]),
      overflowing_add(from[3], key[3]), overflowing_add(from[4], key[4])>>

\* key: the octets of the key, to - from octet by octet.
key(from, to) ==
    <<overflowing_sub(to[1], from[1]), overflowing_sub(to[2], from[2]),
      overflowing_sub(to[3], from[3]), overflowing_sub(to[4], from[4])>>

\* v6_dest: the 16 bytes of the destination, from xor key byte by byte.
v6_dest(from, key_addr) ==
    [idx \in 0..15 |-> bitxor(from[idx], key_addr[idx])]

\* v6_key: the 16 bytes of the key, to xor from byte by byte.
v6_key(from, to) ==
    [idx \in 0..15 |-> bitxor(to[idx], from[idx])]

\* Addresses given to the handlers.
V4From ==
    LET octets == {0, 1, 128, 255}
    IN  {<<a, b, c, d>> : a \in octets, b \in octets, c \in octets,
                          d \in octets}
V4Other == {<<0, 0, 0, 0>>, <<0, 0, 0, 1>>, <<1, 2, 3, 4>>, <<0, 255, 0, 1>>,
            <<255, 255, 255, 255>>, <<128, 128, 0, 127>>, <<10, 0, 0, 200>>,
            <<192, 168, 1, 129>>}
V6Addrs ==
    {[idx \in 0..15 |-> b] : b \in {0, 85, 170, 255}}
        \cup {[idx \in 0..15 |-> IF idx = 15 THEN 1 ELSE 0],
              [idx \in 0..15 |-> 17 * idx],
              [idx \in 0..15 |-> 255 - idx],
              [idx \in 0..15 |-> IF idx < 2 THEN 254 - (126 * idx) ELSE idx * idx],
              [idx \in 0..15 |-> IF idx % 2 = 0 THEN 128 ELSE 127]}

AddrInit ==
    /\ BucketIdle
    /\ BoardIdle
    /\ \/ \E from \in V4From, other \in V4Other :
             call = [fn |-> "v4", args |-> <<from, other>>]
       \/ \E from \in V6Addrs, other \in V6Addrs :
             call = [fn |-> "v6", args |-> <<from, other>>]
    /\ out = Pending

\* dest and key on (from, other), other taken as the key and as the
\* destination, and each applied to the result of the other.
ApplyV4 ==
    /\ call.fn = "v4"
    /\ out = Pending
    /\ LET from == call.args[1]
           other == call.args[2]
       IN  out' = [kind |-> "v4",
                   dest |-> dest(from, other),
                   key |-> key(from, other),
                   key_of_dest |-> key(from, dest(from, other)),
                   dest_of_key |-> dest(from, key(from, other))]
    /\ UNCHANGED <<bucketVars, boardVars, call>>

\* v6_dest and v6_key on (from, other), and v6_key on the result of v6_dest.
ApplyV6 ==
    /\ call.fn = "v6"
    /\ out = Pending
    /\ LET from == call.args[1]
           other == call.args[2]
       IN  out' = [kind |-> "v6",
                   dest |-> v6_dest(from, other),
                   key |-> v6_key(from, other),
                   key_of_dest |-> v6_key(from, v6_dest(from, other))]
    /\ UNCHANGED <<bucketVars, boardVars, call>>

AddrNext ==
    \/ ApplyV4
    \/ ApplyV6

SpecAddr == AddrInit /\ [][AddrNext]_vars

\* C29: for IPv4, dest adds and key subtracts octet by octet modulo 256 with
\* no carry between octets, and they are inverse: key(from, dest(from, k)) = k
\* and dest(from, key(from, to)) = to.  For IPv6, v6_dest and v6_key are the
\* same byte-by-byte XOR and v6_key(from, v6_dest(from, k)) = k.
DestKeyInverse ==
    /\ (call.fn = "v4" /\ out # Pending) =>
          LET from == call.args[1]
              other == call.args[2]
          IN  /\ out.key_of_dest = other
              /\ out.dest_of_key = other
              /\ \A i \in 1..4 :
                    /\ out.dest[i] \in 0..255
                    /\ out.key[i] \in 0..255
                    /\ (out.dest[i] - (from[i] + other[i])) % 256 = 0
                    /\ (out.key[i] - (other[i] - from[i])) % 256 = 0
    /\ (call.fn = "v6" /\ out # Pending) =>
          LET from == call.args[1]
              other == call.args[2]
          IN  /\ out.key_of_dest = other
              /\ out.key = out.dest
              /\ \A idx \in 0..15 :
                    /\ out.dest[idx] \in 0..255
                    /\ \A n \in 0..7 :
                          LET bit(b) == (b \div (2 ^ n)) % 2
                          IN  bit(out.dest[idx]) =
                                  (bit(from[idx]) + bit(other[idx])) % 2

\* dest on 0.255.0.255 and 0.255.0.1: octets 2 and 4 wrap to 254 and 0 and
\* nothing is carried into octets 1 and 3.
DestKeyInverseWitness ==
    /\ call = [fn |-> "v4", args |-> << <<0, 255, 0, 255>>, <<0, 255, 0, 1>> >>]
    /\ out # Pending
    /\ out.dest = <<0, 254, 0, 0>>
    /\ out.key = <<0, 0, 0, 2>>
    /\ out.key_of_dest = <<0, 255, 0, 1>>

\* ------------------------------------------ day_12.rs: the render buffer
\* C30: for every board and every outcome, no write of render passes the end
\* of the buffer: the offset after each write is at most
\* MAX_RENDERED_BOARD_SIZE = 128.  The bytes written are 95 for the grid, the
\* border row and the final newline with all cells Empty, one more for each
\* cookie or milk glyph, and 11 more for the outcome line of a board that is
\* won or drawn: at most 122.
RenderFitsBuffer ==
    (call.fn = "render" /\ out # Pending) =>
        LET offsets == write_str(0, out.body)
            len == offsets[Len(offsets)]
            tiles == call.args[1]
            outcome == check_for_winner(tiles)
            ended == outcome.tag = "Err" \/ outcome.winner # "None"
        IN  /\ \A n \in 1..Len(offsets) : offsets[n] <= MAX_RENDERED_BOARD_SIZE
            /\ len = 95 + tiles_placed(tiles) + (IF ended THEN 11 ELSE 0)
            /\ len <= 122

\* A board with no Empty cell and a winner was rendered: 122 bytes.
RenderFitsBufferWitness ==
    /\ call.fn = "render"
    /\ out # Pending
    /\ tiles_placed(call.args[1]) = 16
    /\ check_for_winner(call.args[1]).tag = "Ok"
    /\ check_for_winner(call.args[1]).winner = "Milk"
    /\ write_str(0, out.body)[Len(out.body)] = 122

====
